---- MODULE Spec2Model ----
(***************************************************************************)
(* Model of the ShinyProxy configuration compiler of                       *)
(* src/shiny_proxy/merge_apps.py: main() builds a ShinyProxyConfigManager  *)
(* for the team, generate_config() assembles the platform settings and     *)
(* merge_apps_config() compiles every entry of apps.yml in order, and      *)
(* write_config() writes the result.                                       *)
(*                                                                         *)
(* Python dicts are functions whose DOMAIN is the set of keys present, so  *)
(* "key in d", d.get(key, default), d[key] = v and d.update(u) are         *)
(* modelled by what they do.  An exception is a jump to pc = "exit1" with  *)
(* the exception kind recorded in error.                                   *)
(***************************************************************************)
EXTENDS Integers, Sequences, FiniteSets, TLC

VARIABLES
    team,       \* os.getenv('TEAM_NAME'), "" when unset
    pc,         \* position of main(): main, generate, merge, loop, write, done, exit1
    apps,       \* apps_config.get('specs', []) as read from S3
    i,          \* number of entries of apps the loop has consumed
    specs,      \* the local list specs of merge_apps_config
    config,     \* the configuration being assembled
    sink,       \* content of /opt/shinyproxy/application.yml
    error,      \* kind of the exception that ended the run, "" if none
    app_spec,   \* argument of a stand-alone configure_pre_initialization call
    merged      \* results of applying configure_pre_initialization to it, in order

vars == <<team, pc, apps, i, specs, config, sink, error, app_spec, merged>>

(***************************************************************************)
(* Bounds                                                                  *)
(***************************************************************************)
MaxApps == 2        \* longest apps.yml specs list explored
MaxRemerge == 2     \* repeated applications of the merge explored

(***************************************************************************)
(* dict primitives                                                         *)
(***************************************************************************)
EmptyMap == [k \in {} |-> k]

Get(d, k, default) == IF k \in DOMAIN d THEN d[k] ELSE default

SetItem(d, k, v) == (k :> v) @@ d

Update(d, u) == u @@ d

Opt(k, Vals) == {EmptyMap} \cup {k :> v : v \in Vals}

NoTeam == ""
Teams == {"acme", "ops"}

(***************************************************************************)
(* The apps.yml entries explored.  Every optional field of an entry occurs *)
(* both present and absent; the seat fields occur under the documented     *)
(* key maximum-seats and under the key max-seats.                          *)
(***************************************************************************)
Ids == {"app1", "dash1"}
DefaultId == "app1"
MinSeatVals == {2, 5}
MaxSeatVals == {2}
OddSeatVals == {0 - 1, 0}

PlatformHeaderKeys ==
    {"X-SP-UserId", "X-SP-UserGroups", "X-SP-UserAttributes", "X-SP-AccessToken",
     "X-SP-IdToken", "X-SP-RefreshToken", "X-SP-SessionId", "X-SP-TeamName"}

PlatformEnvKeys ==
    {"SP_CONTAINER_PRE_INIT", "SP_AUTH_TYPE", "SP_TEAM_NAME", "SP_APP_INSTANCE_ID"}

Enabled == "enabled" :> TRUE

SeatBlocks ==
    {Enabled @@ a @@ b :
        a \in Opt("minimum-seats", MinSeatVals),
        b \in Opt("maximum-seats", MaxSeatVals) \cup Opt("max-seats", MaxSeatVals)}
    \cup {Enabled @@ a : a \in Opt("minimum-seats", OddSeatVals)}

TimingBlocks ==
    {Enabled @@ a @@ b :
        a \in Opt("wait-time", {5000}), b \in Opt("idle-timeout", {9000})}

SharingBlocks ==
    { ("enabled" :> FALSE) @@ ("allowed-users" :> <<"ann">>),
      "enabled" :> TRUE,
      ("enabled" :> TRUE) @@ ("allowed-users" :> <<"ann">>),
      ("enabled" :> TRUE) @@ ("allowed-groups" :> <<"staff">>),
      ("enabled" :> TRUE) @@ ("allowed-users" :> <<"ann">>)
          @@ ("allowed-groups" :> <<"staff">>),
      "allowed-users" :> <<"ann">> }

FullBlock ==
    ("minimum-seats" :> 5) @@ ("maximum-seats" :> 2) @@ ("max-seats" :> 2)
        @@ ("wait-time" :> 5000) @@ ("idle-timeout" :> 9000)
        @@ ("sharing" :> (("enabled" :> TRUE) @@ ("allowed-users" :> <<"ann">>)
                             @@ ("allowed-groups" :> <<"staff">>)))

DisabledBlocks == {EmptyMap, FullBlock, ("enabled" :> FALSE) @@ FullBlock}

PreInitBlocks ==
    SeatBlocks \cup TimingBlocks \cup DisabledBlocks \cup {Enabled @@ FullBlock}
        \cup {Enabled @@ ("sharing" :> sh) : sh \in SharingBlocks}

SpoofedHeaders == [k \in PlatformHeaderKeys \cup {"X-Custom"} |-> "spoofed"]
SpoofedEnv == [k \in PlatformEnvKeys \cup {"REDIS_NAMESPACE", "APP_DIR"} |-> "spoofed"]

AuthoredMaps ==
    { [hdr |-> EmptyMap, env |-> EmptyMap],
      [hdr |-> ("Authorization" :> "Bearer x") @@ ("X-SP-TeamName" :> "ops"),
       env |-> ("APP_DIR" :> "/home/shinyuser") @@ ("SP_TEAM_NAME" :> "ops")],
      [hdr |-> SpoofedHeaders, env |-> SpoofedEnv] }

Entries ==
    {("id" :> DefaultId) @@ p : p \in Opt("pre-initialization", PreInitBlocks)}
    \cup {("id" :> DefaultId) @@ p @@ ("http-headers" :> m.hdr) @@ ("container-env" :> m.env) :
            p \in Opt("pre-initialization", {Enabled}), m \in AuthoredMaps}
    \cup {("id" :> DefaultId) @@ ("pre-initialization" :> Enabled)
                @@ ("http-headers" :> SpoofedHeaders),
          ("id" :> DefaultId) @@ ("container-env" :> SpoofedEnv)}
    \cup {("id" :> "dash1") @@ p : p \in Opt("pre-initialization", {Enabled})}
    \cup {("id" :> "dash1") @@ ("container-cpu-request" :> 512)
                @@ ("ecs" :> (("cpu" :> "256") @@ ("launch-type" :> "FARGATE")))}
    \cup {"pre-initialization" :> Enabled}

EntryLists == UNION {[1..n -> Entries] : n \in 0..MaxApps}

(***************************************************************************)
(* ShinyProxyConfigManager                                                 *)
(***************************************************************************)
DefaultMinSeats == 1
SeatsFactor == 3
DefaultWaitTime == 60000
DefaultIdleTimeout == 3600000
DefaultCpu == 1024
DefaultMemory == 2048

InjectedHeaders(team_name) ==
    ("X-SP-UserId" :> "#{proxy.userId}")
        @@ ("X-SP-UserGroups" :> "#{proxy.userGroups}")
        @@ ("X-SP-UserAttributes" :> "#{proxy.userAttributes}")
        @@ ("X-SP-AccessToken" :> "#{oidcUser.accessToken}")
        @@ ("X-SP-IdToken" :> "#{oidcUser.idToken}")
        @@ ("X-SP-RefreshToken" :> "#{oidcUser.refreshToken}")
        @@ ("X-SP-SessionId" :> "#{proxy.sessionId}")
        @@ ("X-SP-TeamName" :> team_name)

InjectedEnv(team_name) ==
    ("SP_CONTAINER_PRE_INIT" :> "true")
        @@ ("SP_AUTH_TYPE" :> "header")
        @@ ("SP_TEAM_NAME" :> team_name)
        @@ ("SP_APP_INSTANCE_ID" :> "#{proxy.appInstanceId}")

\* plausible slip: the pool-sizing factor 2 of the older merge
\* (src/continit/merge_apps_into_proxy_config.py, line 14)
ConfigureSeatsTimesTwo(spec, pre_init_config) ==
    LET min_seats == Get(pre_init_config, "minimum-seats", DefaultMinSeats)
    IN  ("container-instances-min" :> min_seats)
            @@ ("container-instances-max" :>
                    Get(pre_init_config, "max-seats", min_seats * 2))
            @@ ("container-wait-time" :>
                    Get(pre_init_config, "wait-time", DefaultWaitTime))
            @@ ("container-idle-timeout" :>
                    Get(pre_init_config, "idle-timeout", DefaultIdleTimeout))
            @@ spec

\* lines 166-172: pool sizing and lifecycle values of an enabled entry
ConfigureSeats(spec, pre_init_config) ==
    LET min_seats == Get(pre_init_config, "minimum-seats", DefaultMinSeats)
    IN  ("container-instances-min" :> min_seats)
            @@ ("container-instances-max" :>
                    Get(pre_init_config, "max-seats", min_seats * SeatsFactor))
            @@ ("container-wait-time" :>
                    Get(pre_init_config, "wait-time", DefaultWaitTime))
            @@ ("container-idle-timeout" :>
                    Get(pre_init_config, "idle-timeout", DefaultIdleTimeout))
            @@ spec

\* plausible slip: setdefault-style merge, an authored key keeps its value
MergeHeadersAuthorWins(spec, team_name) ==
    LET s == IF "http-headers" \notin DOMAIN spec
             THEN SetItem(spec, "http-headers", EmptyMap) ELSE spec
    IN  SetItem(s, "http-headers", Update(InjectedHeaders(team_name), s["http-headers"]))

\* plausible slip: an additive merge, the injected value joined to the one present
MergeHeadersAdditive(spec, team_name) ==
    LET s == IF "http-headers" \notin DOMAIN spec
             THEN SetItem(spec, "http-headers", EmptyMap) ELSE spec
        old == s["http-headers"]
        new == InjectedHeaders(team_name)
    IN  SetItem(s, "http-headers",
                [k \in DOMAIN old \cup DOMAIN new |->
                    IF k \in DOMAIN old /\ k \in DOMAIN new THEN old[k] \o "," \o new[k]
                    ELSE IF k \in DOMAIN new THEN new[k] ELSE old[k]])

\* lines 174-187: dict.update of the http-headers map, created when missing
MergeHeaders(spec, team_name) ==
    LET s == IF "http-headers" \notin DOMAIN spec
             THEN SetItem(spec, "http-headers", EmptyMap) ELSE spec
    IN  SetItem(s, "http-headers", Update(s["http-headers"], InjectedHeaders(team_name)))

\* plausible slip: the map is assigned, not updated, as the older merge does
\* with http-headers (src/continit/merge_apps_into_proxy_config.py, line 18)
MergeEnvReplace(spec, team_name) ==
    SetItem(spec, "container-env", InjectedEnv(team_name))

\* lines 189-198: dict.update of the container-env map, created when missing
MergeEnv(spec, team_name) ==
    LET s == IF "container-env" \notin DOMAIN spec
             THEN SetItem(spec, "container-env", EmptyMap) ELSE spec
    IN  SetItem(s, "container-env", Update(s["container-env"], InjectedEnv(team_name)))

\* plausible slip: the sub-block's presence, not its enabled flag, turns sharing on
ConfigureSharingWhenPresent(spec, pre_init_config) ==
    IF "sharing" \notin DOMAIN pre_init_config THEN spec
    ELSE LET sharing_config == pre_init_config["sharing"]
             s1 == SetItem(spec, "container-sharing-enabled", TRUE)
             s2 == IF "allowed-users" \in DOMAIN sharing_config
                   THEN SetItem(s1, "access-users", sharing_config["allowed-users"])
                   ELSE s1
             s3 == IF "allowed-groups" \in DOMAIN sharing_config
                   THEN SetItem(s2, "access-groups", sharing_config["allowed-groups"])
                   ELSE s2
         IN  SetItem(s3, "container-sharing-groups",
                     Get(sharing_config, "allowed-groups", <<>>))

\* lines 200-209: container sharing, only under an enabled sharing sub-block
ConfigureSharing(spec, pre_init_config) ==
    IF "sharing" \notin DOMAIN pre_init_config THEN spec
    ELSE LET sharing_config == pre_init_config["sharing"]
             s1 == SetItem(spec, "container-sharing-enabled", TRUE)
             s2 == IF "allowed-users" \in DOMAIN sharing_config
                   THEN SetItem(s1, "access-users", sharing_config["allowed-users"])
                   ELSE s1
             s3 == IF "allowed-groups" \in DOMAIN sharing_config
                   THEN SetItem(s2, "access-groups", sharing_config["allowed-groups"])
                   ELSE s2
         IN  IF Get(sharing_config, "enabled", FALSE)
             THEN SetItem(s3, "container-sharing-groups",
                          Get(sharing_config, "allowed-groups", <<>>))
             ELSE spec

\* plausible slip: the block's presence, not its enabled flag, switches the merge on
ConfigureWhenBlockPresent(spec, team_name) ==
    LET pre_init_config == Get(spec, "pre-initialization", EmptyMap)
    IN  IF "pre-initialization" \in DOMAIN spec
        THEN ConfigureSharing(
                 MergeEnv(MergeHeaders(ConfigureSeats(spec, pre_init_config), team_name),
                          team_name),
                 pre_init_config)
        ELSE spec

configure_pre_initialization(spec, team_name) ==
    LET pre_init_config == Get(spec, "pre-initialization", EmptyMap)
    IN  IF Get(pre_init_config, "enabled", FALSE)
        THEN ConfigureSharing(
                 MergeEnv(MergeHeaders(ConfigureSeats(spec, pre_init_config), team_name),
                          team_name),
                 pre_init_config)
        ELSE spec

Region == "us-east-1"

configure_app_resources(spec, team_name) ==
    LET default_cpu == Get(spec, "container-cpu-request", DefaultCpu)
        default_memory == Get(spec, "container-memory-request", DefaultMemory)
        s == IF "ecs" \notin DOMAIN spec THEN SetItem(spec, "ecs", EmptyMap) ELSE spec
        block ==
            ("task-definition" :> (team_name \o "-" \o spec["id"] \o "-task"))
                @@ ("cpu" :> ToString(default_cpu))
                @@ ("memory" :> ToString(default_memory))
                @@ ("enable-execute-command" :> TRUE)
                @@ ("log-configuration" :>
                        [ logDriver |-> "awslogs",
                          options |->
                            ("awslogs-group" :>
                                    ("/ecs/" \o team_name \o "/" \o spec["id"]))
                                @@ ("awslogs-region" :> Region)
                                @@ ("awslogs-stream-prefix" :> "ecs") ])
    IN  SetItem(s, "ecs", Update(s["ecs"], block))

RedisNamespace(team_name, id) == team_name \o ":" \o id

\* plausible slip: setdefault-style, an authored REDIS_NAMESPACE survives
AddRedisNamespaceIfAbsent(spec, team_name) ==
    LET s == IF "container-env" \notin DOMAIN spec
             THEN SetItem(spec, "container-env", EmptyMap) ELSE spec
    IN  SetItem(s, "container-env",
                Update(("REDIS_NAMESPACE" :> RedisNamespace(team_name, s["id"])),
                       s["container-env"]))

\* lines 258-261: the session-isolation variable, written last
AddRedisNamespace(spec, team_name) ==
    LET s == IF "container-env" \notin DOMAIN spec
             THEN SetItem(spec, "container-env", EmptyMap) ELSE spec
    IN  SetItem(s, "container-env",
                SetItem(s["container-env"], "REDIS_NAMESPACE",
                        RedisNamespace(team_name, s["id"])))

\* lines 263-268; the wall-clock stamp 'created' is left out, nothing reads it
AddMetadata(spec, team_name) ==
    SetItem(spec, "metadata", [team |-> team_name, version |-> "2.0"])

\* lines 252-268: the body of the loop for an entry that has an id
CompileEntry(spec, team_name) ==
    AddMetadata(
        AddRedisNamespace(
            configure_app_resources(configure_pre_initialization(spec, team_name),
                                    team_name),
            team_name),
        team_name)

\* lines 58-98: the team-dependent settings of the base configuration
setup_base_config(team_name) ==
    [ server |-> ("forward-headers-strategy" :> "native")
                    @@ ("use-forward-headers" :> TRUE),
      management |-> [cloudwatch_namespace |-> "ShinyProxy/" \o team_name],
      spring |-> [session_namespace |-> "shinyproxy:" \o team_name] ]

\* lines 100-138: proxy settings and the ECS backend block merged into them
setup_proxy_config(team_name) ==
    ("title" :> (team_name \o " Analytics Platform"))
        @@ ("authentication" :> "openid")
        @@ ("admin-groups" :> <<"shinyproxy-admins", team_name \o "-admins">>)
        @@ ("container-backend" :> "ecs")
        @@ ("container-wait-time" :> DefaultWaitTime)
        @@ ("container-log-path" :> ("/var/log/shinyproxy/" \o team_name))
        @@ ("support-container-re-use" :> TRUE)
        @@ ("store-mode" :> "Redis")
        @@ ("ecs" :> [cluster |-> team_name \o "-cluster", region |-> Region])

\* lines 140-156: the OpenID block, its secrets read from the collaborators
setup_openid_config(team_name) ==
    [ openid |-> ("client-id" :> ("/" \o team_name \o "/openid/client-id"))
                    @@ ("client-secret" :> (team_name \o "/openid/client-secret"))
                    @@ ("username-attribute" :> "preferred_username")
                    @@ ("roles-claim" :> "groups") ]

NoFile == [status |-> "unwritten", content |-> EmptyMap]

Init ==
    /\ team \in Teams \cup {NoTeam}
    /\ pc = "main"
    /\ apps = <<>>
    /\ i = 0
    /\ specs = <<>>
    /\ config = EmptyMap
    /\ sink = NoFile
    /\ error = ""
    /\ app_spec = EmptyMap
    /\ merged = <<>>

Raise(kind) ==
    /\ pc' = "exit1"
    /\ error' = kind

\* main, lines 304-310: TEAM_NAME must be set
Main ==
    /\ pc = "main"
    /\ IF team = NoTeam
       THEN Raise("NoTeam")
       ELSE pc' = "generate" /\ error' = error
    /\ UNCHANGED <<team, apps, i, specs, config, sink, app_spec, merged>>

\* generate_config, lines 279-289: everything before merge_apps_config
SetupConfig ==
    /\ pc = "generate"
    /\ config' = setup_openid_config(team)
                    @@ ("proxy" :> setup_proxy_config(team))
                    @@ setup_base_config(team)
    /\ pc' = "merge"
    /\ UNCHANGED <<team, apps, i, specs, sink, error, app_spec, merged>>

\* get_secret / get_parameter raise, lines 32-34 and 44-46
SetupConfigFails ==
    /\ pc = "generate"
    /\ Raise("CollaboratorFailure")
    /\ UNCHANGED <<team, apps, i, specs, config, sink, app_spec, merged>>

\* merge_apps_config, lines 245-249: the document read and its specs list
ReadS3Yaml ==
    /\ pc = "merge"
    /\ \E l \in EntryLists : apps' = l
    /\ pc' = "loop"
    /\ UNCHANGED <<team, i, specs, config, sink, error, app_spec, merged>>

\* read_s3_yaml raises, lines 54-56
ReadS3YamlFails ==
    /\ pc = "merge"
    /\ Raise("CollaboratorFailure")
    /\ UNCHANGED <<team, apps, i, specs, config, sink, app_spec, merged>>

\* plausible slip: specs.insert(0, app_spec)
PrependSpec(list, spec) == <<spec>> \o list

\* line 270: specs.append(app_spec)
AppendSpec(list, spec) == Append(list, spec)

\* one iteration of the loop, lines 249-270; app_spec['id'] of line 250
\* raises KeyError for an entry without id
ProcessApp ==
    /\ pc = "loop"
    /\ i < Len(apps)
    /\ IF "id" \notin DOMAIN apps[i + 1]
       THEN /\ Raise("KeyError")
            /\ UNCHANGED <<i, specs>>
       ELSE /\ specs' = AppendSpec(specs, CompileEntry(apps[i + 1], team))
            /\ i' = i + 1
            /\ UNCHANGED <<pc, error>>
    /\ UNCHANGED <<team, apps, config, sink, app_spec, merged>>

\* lines 272-273 and generate_config's return, line 294
FinishMerge ==
    /\ pc = "loop"
    /\ i = Len(apps)
    /\ config' = [config EXCEPT !["proxy"] = SetItem(@, "specs", specs)]
    /\ pc' = "write"
    /\ UNCHANGED <<team, apps, i, specs, sink, error, app_spec, merged>>

\* write_config, lines 296-300, and the end of main
WriteConfig ==
    /\ pc = "write"
    /\ sink' = [status |-> "written", content |-> config]
    /\ pc' = "done"
    /\ UNCHANGED <<team, apps, i, specs, config, error, app_spec, merged>>

\* open() or yaml.dump raises: the file is untouched or left truncated
WriteConfigFails ==
    /\ pc = "write"
    /\ \E st \in {"unwritten", "truncated"} :
            sink' = [status |-> st, content |-> EmptyMap]
    /\ Raise("WriteFailure")
    /\ UNCHANGED <<team, apps, i, specs, config, app_spec, merged>>

Next ==
    \/ Main
    \/ SetupConfig
    \/ SetupConfigFails
    \/ ReadS3Yaml
    \/ ReadS3YamlFails
    \/ ProcessApp
    \/ FinishMerge
    \/ WriteConfig
    \/ WriteConfigFails

Spec == Init /\ [][Next]_vars

(***************************************************************************)
(* configure_pre_initialization on its own: applied to an authored entry,  *)
(* then again to its own result.                                           *)
(***************************************************************************)
InitMerge ==
    /\ team \in Teams
    /\ pc = "call"
    /\ app_spec \in Entries
    /\ merged = <<>>
    /\ apps = <<>>
    /\ i = 0
    /\ specs = <<>>
    /\ config = EmptyMap
    /\ sink = NoFile
    /\ error = ""

\* the first application, to the entry as authored
Merge ==
    /\ pc = "call"
    /\ merged = <<>>
    /\ merged' = <<configure_pre_initialization(app_spec, team)>>
    /\ UNCHANGED <<team, pc, apps, i, specs, config, sink, error, app_spec>>

Remerge ==
    /\ pc = "call"
    /\ merged # <<>>
    /\ Len(merged) <= MaxRemerge
    /\ merged' = Append(merged,
                        configure_pre_initialization(merged[Len(merged)], team))
    /\ UNCHANGED <<team, pc, apps, i, specs, config, sink, error, app_spec>>

NextMerge ==
    \/ Merge
    \/ Remerge

SpecMerge == InitMerge /\ [][NextMerge]_vars

(***************************************************************************)
(* The older merge, src/continit/merge_apps_into_proxy_config.py: the same *)
(* loop over the specs list with the flag pre-initialize on the entry      *)
(* itself.  Its specs list is what the caller passes in; the helper        *)
(* setup_user_sharing_config is not part of the sources, so a call of it   *)
(* either returns, with effects that are unknown and left out, or raises.  *)
(***************************************************************************)
ContinitDefaultMinSeats == 2
ContinitPoolFactor == 2
ContinitWaitTime == 60000

ContinitHeaders ==
    ("Authorization" :> "Bearer #{oidcUser.accessToken}")
        @@ ("X-SP-USERNAME" :> "#{proxy.userId}")
        @@ ("X-SP-GROUPS" :> "#{proxy.userGroups}")
        @@ ("X-SP-ATTRIBUTES" :> "#{proxy.userAttributes}")

ContinitEntries ==
    {a @@ b @@ c @@ d :
        a \in Opt("id", Ids),
        b \in Opt("pre-initialize", {TRUE}),
        c \in Opt("container-env", {SpoofedEnv}),
        d \in Opt("allowed-users", {<<"ann">>})}
    \cup {("id" :> DefaultId) @@ ("pre-initialize" :> FALSE)
            @@ ("minimum-seats-available" :> 5),
          ("id" :> DefaultId) @@ ("pre-initialize" :> TRUE)
            @@ ("minimum-seats-available" :> 5) @@ ("container-env" :> EmptyMap)
            @@ ("http-headers" :> SpoofedHeaders) @@ ("allowed-groups" :> <<"staff">>)}

ContinitEntryLists == UNION {[1..n -> ContinitEntries] : n \in 0..MaxApps}

\* lines 9-23 up to the sharing call, for an entry that has container-env
ContinitPreInit(spec) ==
    LET min_seats == Get(spec, "minimum-seats-available", ContinitDefaultMinSeats)
    IN  ("container-instances-min" :> min_seats)
            @@ ("container-wait-time" :> ContinitWaitTime)
            @@ ("container-pool-size" :> min_seats * ContinitPoolFactor)
            @@ ("container-env" :>
                    SetItem(spec["container-env"], "SHINYPROXY_AUTH_TYPE", "header"))
            @@ ("http-headers" :> ContinitHeaders)
            @@ spec

\* line 26: the sharing helper is called
CallsSharing(spec) ==
    /\ Get(spec, "pre-initialize", FALSE)
    /\ "allowed-users" \in DOMAIN spec \/ "allowed-groups" \in DOMAIN spec

\* line 17: container-env is indexed without having been created
ContinitEnvKeyError(spec) ==
    /\ Get(spec, "pre-initialize", FALSE)
    /\ "container-env" \notin DOMAIN spec

\* line 36: app_spec['id'] of an entry without id
ContinitIdKeyError(spec) == "id" \notin DOMAIN spec

\* lines 6-36: the loop body for an entry on which nothing raises
ContinitCompile(spec, team_name) ==
    AddRedisNamespace(
        IF Get(spec, "pre-initialize", FALSE) THEN ContinitPreInit(spec) ELSE spec,
        team_name)

InitContinit ==
    /\ team \in Teams
    /\ pc = "continit"
    /\ apps = <<>>
    /\ i = 0
    /\ specs = <<>>
    /\ config = EmptyMap
    /\ sink = NoFile
    /\ error = ""
    /\ app_spec = EmptyMap
    /\ merged = <<>>

\* the call: the specs list of the configuration passed in
ContinitCall ==
    /\ pc = "continit"
    /\ \E l \in ContinitEntryLists : apps' = l
    /\ pc' = "continit_loop"
    /\ UNCHANGED <<team, i, specs, config, sink, error, app_spec, merged>>

\* one iteration, lines 5-36; any exception is re-raised, lines 40-42
ContinitProcessApp ==
    /\ pc = "continit_loop"
    /\ i < Len(apps)
    /\ \/ /\ ContinitEnvKeyError(apps[i + 1])
          /\ pc' = "continit_raised"
          /\ error' = "KeyError"
          /\ UNCHANGED <<i, specs>>
       \/ /\ ~ContinitEnvKeyError(apps[i + 1])
          /\ CallsSharing(apps[i + 1])
          /\ pc' = "continit_raised"
          /\ error' = "SharingFailure"
          /\ UNCHANGED <<i, specs>>
       \/ /\ ~ContinitEnvKeyError(apps[i + 1])
          /\ ContinitIdKeyError(apps[i + 1])
          /\ pc' = "continit_raised"
          /\ error' = "KeyError"
          /\ UNCHANGED <<i, specs>>
       \/ /\ ~ContinitEnvKeyError(apps[i + 1])
          /\ ~ContinitIdKeyError(apps[i + 1])
          /\ specs' = AppendSpec(specs, ContinitCompile(apps[i + 1], team))
          /\ i' = i + 1
          /\ UNCHANGED <<pc, error>>
    /\ UNCHANGED <<team, apps, config, sink, app_spec, merged>>

\* line 38
ContinitReturn ==
    /\ pc = "continit_loop"
    /\ i = Len(apps)
    /\ pc' = "continit_done"
    /\ UNCHANGED <<team, apps, i, specs, config, sink, error, app_spec, merged>>

InitBoth == Init \/ InitContinit

NextBoth ==
    \/ Main
    \/ SetupConfig
    \/ SetupConfigFails
    \/ ReadS3Yaml
    \/ ReadS3YamlFails
    \/ ProcessApp
    \/ FinishMerge
    \/ WriteConfig
    \/ WriteConfigFails
    \/ ContinitCall
    \/ ContinitProcessApp
    \/ ContinitReturn

SpecBoth == InitBoth /\ [][NextBoth]_vars

(***************************************************************************)
(* Vocabulary of the properties                                            *)
(***************************************************************************)
PreInitOf(entry) == Get(entry, "pre-initialization", EmptyMap)

IsEnabled(entry) ==
    /\ "enabled" \in DOMAIN PreInitOf(entry)
    /\ PreInitOf(entry)["enabled"] = TRUE

Done == 1..Len(specs)

HeadersOf(spec) == Get(spec, "http-headers", EmptyMap)
EnvOf(spec) == Get(spec, "container-env", EmptyMap)

PoolKeys ==
    {"container-instances-min", "container-instances-max",
     "container-wait-time", "container-idle-timeout"}

Returned == pc \in {"write", "done"}
Written == sink.status = "written"

(***************************************************************************)
(* C1  Override semantics: in every compiled entry whose pre-              *)
(* initialization is enabled, each of the eight X-SP-* header keys and     *)
(* each of the four SP_* env keys holds the platform value, whatever the   *)
(* author supplied under that key.                                         *)
(***************************************************************************)
C1_PlatformValuesOverride ==
    \A k \in Done :
        IsEnabled(apps[k]) =>
            /\ "http-headers" \in DOMAIN specs[k]
            /\ "container-env" \in DOMAIN specs[k]
            /\ PlatformHeaderKeys \subseteq DOMAIN specs[k]["http-headers"]
            /\ PlatformEnvKeys \subseteq DOMAIN specs[k]["container-env"]
            /\ specs[k]["http-headers"]["X-SP-UserId"] = "#{proxy.userId}"
            /\ specs[k]["http-headers"]["X-SP-UserGroups"] = "#{proxy.userGroups}"
            /\ specs[k]["http-headers"]["X-SP-UserAttributes"] = "#{proxy.userAttributes}"
            /\ specs[k]["http-headers"]["X-SP-AccessToken"] = "#{oidcUser.accessToken}"
            /\ specs[k]["http-headers"]["X-SP-IdToken"] = "#{oidcUser.idToken}"
            /\ specs[k]["http-headers"]["X-SP-RefreshToken"] = "#{oidcUser.refreshToken}"
            /\ specs[k]["http-headers"]["X-SP-SessionId"] = "#{proxy.sessionId}"
            /\ specs[k]["http-headers"]["X-SP-TeamName"] = team
            /\ specs[k]["container-env"]["SP_CONTAINER_PRE_INIT"] = "true"
            /\ specs[k]["container-env"]["SP_AUTH_TYPE"] = "header"
            /\ specs[k]["container-env"]["SP_TEAM_NAME"] = team
            /\ specs[k]["container-env"]["SP_APP_INSTANCE_ID"] = "#{proxy.appInstanceId}"

\* an enabled entry whose author set every platform key to another value
\* has been compiled and written
C1_Witness ==
    /\ Written
    /\ \E k \in Done :
        /\ IsEnabled(apps[k])
        /\ HeadersOf(apps[k]) = SpoofedHeaders
        /\ EnvOf(apps[k]) = SpoofedEnv
        /\ specs[k]["http-headers"]["X-SP-UserId"] # apps[k]["http-headers"]["X-SP-UserId"]

(***************************************************************************)
(* C2  An entry whose pre-initialization block is absent, or whose enabled *)
(* field is false or absent, is compiled with its authored http-headers    *)
(* untouched and its authored container-env plus REDIS_NAMESPACE only, and *)
(* the compiler sets none of container-instances-min/max,                  *)
(* container-wait-time, container-idle-timeout.                            *)
(***************************************************************************)
C2_DisabledPassThrough ==
    \A k \in Done :
        ~IsEnabled(apps[k]) =>
            /\ ("http-headers" \in DOMAIN specs[k]) = ("http-headers" \in DOMAIN apps[k])
            /\ HeadersOf(specs[k]) = HeadersOf(apps[k])
            /\ DOMAIN EnvOf(specs[k]) = DOMAIN EnvOf(apps[k]) \cup {"REDIS_NAMESPACE"}
            /\ \A v \in DOMAIN EnvOf(apps[k]) \ {"REDIS_NAMESPACE"} :
                    EnvOf(specs[k])[v] = EnvOf(apps[k])[v]
            /\ \A key \in PoolKeys : key \notin DOMAIN specs[k]

\* a block with enabled = false and every other field set, a block without
\* enabled, and an entry without a block have all been compiled
C2_Witness ==
    /\ Written
    /\ \E k \in Done :
        /\ "enabled" \in DOMAIN PreInitOf(apps[k])
        /\ ~IsEnabled(apps[k])
        /\ "minimum-seats" \in DOMAIN PreInitOf(apps[k])
    /\ \E k \in Done :
        /\ "pre-initialization" \notin DOMAIN apps[k]
        /\ "http-headers" \in DOMAIN apps[k]
        /\ "X-SP-TeamName" \in DOMAIN apps[k]["http-headers"]

(***************************************************************************)
(* C3  A run whose input holds an enabled entry with resolved maximum      *)
(* seats below its resolved minimum seats (minimum-seats = 5,              *)
(* maximum-seats = 2) fails and produces no output document.               *)
(***************************************************************************)
ResolvedMinSeats(entry) == Get(PreInitOf(entry), "minimum-seats", 1)

ResolvedMaxSeats(entry) ==
    Get(PreInitOf(entry), "maximum-seats", 3 * ResolvedMinSeats(entry))

\* a maximum below a minimum of at least one seat, as in the claim's example
InvalidPolicy(entry) ==
    /\ IsEnabled(entry)
    /\ ResolvedMinSeats(entry) >= 1
    /\ ResolvedMaxSeats(entry) < ResolvedMinSeats(entry)

C3_InvalidPolicyFails ==
    (\E k \in 1..Len(apps) : InvalidPolicy(apps[k])) =>
        /\ ~Written
        /\ ~Returned

(***************************************************************************)
(* C4  Every specs list returned by merge_apps_config has pairwise         *)
(* distinct ids: a run with two entries of the same id fails and returns   *)
(* no list.                                                                *)
(***************************************************************************)
C4_ReturnedIdsDistinct ==
    Returned =>
        \A k, l \in DOMAIN config["proxy"]["specs"] :
            k # l => config["proxy"]["specs"][k]["id"] # config["proxy"]["specs"][l]["id"]

(***************************************************************************)
(* C5  In every compiled enabled entry an explicit minimum-seats,          *)
(* maximum-seats, wait-time or idle-timeout of the pre-initialization      *)
(* block is the value of container-instances-min, container-instances-max, *)
(* container-wait-time, container-idle-timeout respectively.               *)
(***************************************************************************)
ExplicitFields ==
    { <<"minimum-seats", "container-instances-min">>,
      <<"maximum-seats", "container-instances-max">>,
      <<"wait-time", "container-wait-time">>,
      <<"idle-timeout", "container-idle-timeout">> }

C5_ExplicitValuesOverride ==
    \A k \in Done :
        IsEnabled(apps[k]) =>
            \A f \in ExplicitFields :
                f[1] \in DOMAIN PreInitOf(apps[k]) =>
                    specs[k][f[2]] = PreInitOf(apps[k])[f[1]]

(***************************************************************************)
(* C6  In every compiled enabled entry whose block gives no maximum,       *)
(* container-instances-max is 3 times the resolved minimum and             *)
(* container-instances-min is that minimum, 1 when minimum-seats is not    *)
(* given: minimum-seats = 2 gives 6, no minimum-seats gives 1 and 3.       *)
(***************************************************************************)
NoMaximumGiven(entry) ==
    /\ "maximum-seats" \notin DOMAIN PreInitOf(entry)
    /\ "max-seats" \notin DOMAIN PreInitOf(entry)

C6_DefaultMaxIsThreeTimesMin ==
    \A k \in Done :
        (IsEnabled(apps[k]) /\ NoMaximumGiven(apps[k])) =>
            /\ "minimum-seats" \in DOMAIN PreInitOf(apps[k]) =>
                /\ specs[k]["container-instances-min"] = PreInitOf(apps[k])["minimum-seats"]
                /\ specs[k]["container-instances-max"]
                        = 3 * PreInitOf(apps[k])["minimum-seats"]
                /\ PreInitOf(apps[k])["minimum-seats"] = 2 =>
                        specs[k]["container-instances-max"] = 6
            /\ "minimum-seats" \notin DOMAIN PreInitOf(apps[k]) =>
                /\ specs[k]["container-instances-min"] = 1
                /\ specs[k]["container-instances-max"] = 3

\* both cases of the claim have been compiled: minimum-seats = 2 without a
\* maximum, and neither seat field given
C6_Witness ==
    /\ Written
    /\ \E k \in Done :
        /\ IsEnabled(apps[k]) /\ NoMaximumGiven(apps[k])
        /\ Get(PreInitOf(apps[k]), "minimum-seats", 0) = 2
        /\ specs[k]["container-instances-max"] = 6
    /\ \E k \in Done :
        /\ IsEnabled(apps[k]) /\ NoMaximumGiven(apps[k])
        /\ "minimum-seats" \notin DOMAIN PreInitOf(apps[k])
        /\ specs[k]["container-instances-max"] = 3

(***************************************************************************)
(* C7  Every compiled entry, enabled or not, has                           *)
(* container-env['REDIS_NAMESPACE'] = team + ":" + id, whether or not the  *)
(* author supplied a container-env map or a REDIS_NAMESPACE value; team    *)
(* "acme" and id "dash1" give "acme:dash1".                                *)
(***************************************************************************)
C7_RedisNamespace ==
    \A k \in Done :
        /\ "container-env" \in DOMAIN specs[k]
        /\ "REDIS_NAMESPACE" \in DOMAIN specs[k]["container-env"]
        /\ specs[k]["container-env"]["REDIS_NAMESPACE"] = team \o ":" \o apps[k]["id"]
        /\ (team = "acme" /\ apps[k]["id"] = "dash1") =>
                specs[k]["container-env"]["REDIS_NAMESPACE"] = "acme:dash1"

\* compiled and written: acme's dash1, an entry whose author set
\* REDIS_NAMESPACE, an entry without container-env, enabled and disabled
C7_Witness ==
    /\ Written
    /\ team = "acme"
    /\ \E k \in Done :
        /\ apps[k]["id"] = "dash1"
        /\ "container-env" \notin DOMAIN apps[k]
        /\ ~IsEnabled(apps[k])
    /\ \E k \in Done :
        /\ IsEnabled(apps[k])
        /\ "REDIS_NAMESPACE" \in DOMAIN EnvOf(apps[k])
        /\ apps[k]["container-env"]["REDIS_NAMESPACE"]
                # specs[k]["container-env"]["REDIS_NAMESPACE"]

(***************************************************************************)
(* C8  All-or-nothing: when the input holds an entry without id, an        *)
(* invalid policy or a duplicate id, or a collaborator read fails,         *)
(* generate_config returns no configuration and nothing is written.        *)
(***************************************************************************)
DuplicateId ==
    \E k, l \in 1..Len(apps) :
        /\ k # l
        /\ "id" \in DOMAIN apps[k]
        /\ "id" \in DOMAIN apps[l]
        /\ apps[k]["id"] = apps[l]["id"]

InputFails ==
    \/ \E k \in 1..Len(apps) : "id" \notin DOMAIN apps[k]
    \/ \E k \in 1..Len(apps) : InvalidPolicy(apps[k])
    \/ DuplicateId
    \/ error = "CollaboratorFailure"

C8_AllOrNothing ==
    InputFails =>
        /\ ~Returned
        /\ sink = NoFile

(***************************************************************************)
(* C9  Merge idempotence: configure_pre_initialization applied to its own  *)
(* result leaves http-headers and container-env as they were after the     *)
(* first application, for every entry and policy.                          *)
(***************************************************************************)
C9_MergeIdempotent ==
    \A n \in 2..Len(merged) :
        /\ ("http-headers" \in DOMAIN merged[n]) = ("http-headers" \in DOMAIN merged[1])
        /\ ("container-env" \in DOMAIN merged[n]) = ("container-env" \in DOMAIN merged[1])
        /\ HeadersOf(merged[n]) = HeadersOf(merged[1])
        /\ EnvOf(merged[n]) = EnvOf(merged[1])

\* an enabled entry with authored values under the platform keys has been
\* merged, changed by the first merge, and merged again
C9_Witness ==
    /\ Len(merged) >= 2
    /\ IsEnabled(app_spec)
    /\ HeadersOf(app_spec) = SpoofedHeaders
    /\ EnvOf(app_spec) = SpoofedEnv
    /\ HeadersOf(merged[1]) # HeadersOf(app_spec)

(***************************************************************************)
(* C10  At every step of the loop the accumulated list is the compilation  *)
(* of the input prefix consumed so far, entry by entry; the list returned  *)
(* and written has the length of the input and the i-th id of the input    *)
(* at position i.                                                          *)
(***************************************************************************)
SameIds(list) ==
    /\ Len(list) = Len(apps)
    /\ \A k \in 1..Len(list) : list[k]["id"] = apps[k]["id"]

C10_OrderPreserved ==
    /\ Len(specs) = i
    /\ i <= Len(apps)
    /\ \A k \in Done : specs[k]["id"] = apps[k]["id"]
    /\ \A k \in Done : specs[k] = CompileEntry(apps[k], team)
    /\ Returned => SameIds(config["proxy"]["specs"])
    /\ Written => SameIds(sink.content["proxy"]["specs"])

\* a two-entry input with different ids has been compiled and written
C10_Witness ==
    /\ Written
    /\ Len(apps) = 2
    /\ apps[1]["id"] # apps[2]["id"]
    /\ IsEnabled(apps[1])
    /\ ~IsEnabled(apps[2])

(***************************************************************************)
(* C11  PreInitPolicy invariant: every enabled entry of a written          *)
(* configuration has container-instances-min >= 1 and                      *)
(* container-instances-max >= container-instances-min, whatever the        *)
(* authored seat fields are (minimum-seats = 0 or negative included).      *)
(***************************************************************************)
C11_SeatsInvariant ==
    Written =>
        \A k \in 1..Len(sink.content["proxy"]["specs"]) :
            IsEnabled(apps[k]) =>
                /\ sink.content["proxy"]["specs"][k]["container-instances-min"] >= 1
                /\ sink.content["proxy"]["specs"][k]["container-instances-max"]
                      >= sink.content["proxy"]["specs"][k]["container-instances-min"]

(***************************************************************************)
(* C12  Frame of the merge: in every compiled enabled entry each authored  *)
(* http-headers key and container-env key that is not platform-injected    *)
(* (and not REDIS_NAMESPACE) is present with its authored value, and the   *)
(* maps hold no key beyond the authored and the injected ones.             *)
(***************************************************************************)
C12_MergeFrame ==
    \A k \in Done :
        IsEnabled(apps[k]) =>
            /\ \A h \in DOMAIN HeadersOf(apps[k]) \ PlatformHeaderKeys :
                /\ h \in DOMAIN HeadersOf(specs[k])
                /\ HeadersOf(specs[k])[h] = HeadersOf(apps[k])[h]
            /\ \A v \in DOMAIN EnvOf(apps[k]) \ (PlatformEnvKeys \cup {"REDIS_NAMESPACE"}) :
                /\ v \in DOMAIN EnvOf(specs[k])
                /\ EnvOf(specs[k])[v] = EnvOf(apps[k])[v]
            /\ DOMAIN HeadersOf(specs[k])
                  = DOMAIN HeadersOf(apps[k]) \cup PlatformHeaderKeys
            /\ DOMAIN EnvOf(specs[k])
                  = DOMAIN EnvOf(apps[k]) \cup PlatformEnvKeys \cup {"REDIS_NAMESPACE"}

\* an enabled entry with authored keys beside the platform keys, in both
\* maps, has been compiled and written, the platform keys overwritten
C12_Witness ==
    /\ Written
    /\ \E k \in Done :
        /\ IsEnabled(apps[k])
        /\ "X-Custom" \in DOMAIN HeadersOf(apps[k])
        /\ "APP_DIR" \in DOMAIN EnvOf(apps[k])
        /\ "X-SP-UserId" \in DOMAIN HeadersOf(apps[k])
        /\ HeadersOf(specs[k])["X-SP-UserId"] # HeadersOf(apps[k])["X-SP-UserId"]
        /\ HeadersOf(specs[k])["X-Custom"] = "spoofed"
        /\ EnvOf(specs[k])["APP_DIR"] = "spoofed"

(***************************************************************************)
(* C13  Sharing is emitted only when requested: a compiled entry carries   *)
(* container-sharing-enabled, access-users, access-groups or               *)
(* container-sharing-groups only if its pre-initialization is enabled and  *)
(* the sharing sub-block is present with enabled = true; access-users and  *)
(* access-groups are then present exactly for the allow-lists the          *)
(* sub-block holds, with their values.                                     *)
(***************************************************************************)
SharingKeys ==
    {"container-sharing-enabled", "access-users", "access-groups",
     "container-sharing-groups"}

SharingOf(entry) == Get(PreInitOf(entry), "sharing", EmptyMap)

SharingRequested(entry) ==
    /\ IsEnabled(entry)
    /\ "sharing" \in DOMAIN PreInitOf(entry)
    /\ "enabled" \in DOMAIN SharingOf(entry)
    /\ SharingOf(entry)["enabled"] = TRUE

C13_SharingOnlyWhenRequested ==
    \A k \in Done :
        /\ ~SharingRequested(apps[k]) =>
                \A key \in SharingKeys : key \notin DOMAIN specs[k]
        /\ SharingRequested(apps[k]) =>
            /\ ("access-users" \in DOMAIN specs[k])
                    = ("allowed-users" \in DOMAIN SharingOf(apps[k]))
            /\ ("access-groups" \in DOMAIN specs[k])
                    = ("allowed-groups" \in DOMAIN SharingOf(apps[k]))
            /\ "access-users" \in DOMAIN specs[k] =>
                    specs[k]["access-users"] = SharingOf(apps[k])["allowed-users"]
            /\ "access-groups" \in DOMAIN specs[k] =>
                    specs[k]["access-groups"] = SharingOf(apps[k])["allowed-groups"]

\* written: an entry whose enabled sub-block holds allowed-users only, next
\* to an enabled entry whose sub-block has enabled = false and an allow-list
C13_Witness ==
    /\ Written
    /\ \E k \in Done :
        /\ SharingRequested(apps[k])
        /\ "allowed-users" \in DOMAIN SharingOf(apps[k])
        /\ "allowed-groups" \notin DOMAIN SharingOf(apps[k])
        /\ "container-sharing-enabled" \in DOMAIN specs[k]
        /\ "access-users" \in DOMAIN specs[k]
        /\ "access-groups" \notin DOMAIN specs[k]
    /\ \E k \in Done :
        /\ IsEnabled(apps[k])
        /\ "enabled" \in DOMAIN SharingOf(apps[k])
        /\ ~SharingRequested(apps[k])
        /\ "allowed-users" \in DOMAIN SharingOf(apps[k])

====
